---- MODULE Spec2Model ----
(***************************************************************************)
(* A model of pyEQL's Solute class (src/pyEQL/solute.py) and of the        *)
(* acid-base distribution function alpha (src/src/pyEQL/equilibrium.py).   *)
(*                                                                         *)
(* Spec      : one Solute object and the process-wide parameters database  *)
(* SpecAlpha : calls of the pure function alpha on bounded inputs          *)
(* SpecAdjust: calls of adjust_temp_vanthoff, _arrhenius and _pitzer       *)
(***************************************************************************)
EXTENDS Integers, Sequences, FiniteSets, Bags, TLC

VARIABLES db, self, obj, call, result, errlog, searched,
          nOps, base, delta, onlyMoles,
          pH, pKa_list, alphaOut, terms_list,
          adjCalls

solute_vars == <<db, self, obj, call, result, errlog, searched,
                 nOps, base, delta, onlyMoles>>
alpha_vars == <<pH, pKa_list, alphaOut, terms_list>>
adjust_vars == <<adjCalls>>
vars == <<solute_vars, alpha_vars, adjust_vars>>

----------------------------------------------------------------------------
(* Bounds of the model *)

\* number of add_moles / set_moles / add_parameter calls in one behaviour
MaxOps == 2
\* largest magnitude in an amount string
MaxMagnitude == 1
\* longest pKa_list handed to alpha
MaxLen == 2
\* number of adjust_temp_* calls in one behaviour
MaxCalls == 2

----------------------------------------------------------------------------
(* Values *)

\* Every value a method hands back is a record of one shape:
\* None, or a pint Quantity num/den in unit (a tuple of unit factors).
None == [tag |-> "None", num |-> 0, den |-> 1, unit |-> <<>>]
Quantity(m, u) == [tag |-> "Quantity", num |-> m, den |-> 1, unit |-> u]
NoResult == [op |-> "none", kind |-> "none", value |-> None, err |-> "none"]
Returned(op, v) == [op |-> op, kind |-> "return", value |-> v, err |-> "none"]
Raised(op, e) == [op |-> op, kind |-> "raise", value |-> None, err |-> e]
\* the arguments of a call: a name (formula or parameter), a number
\* (magnitude or temperature) and a unit
Args(name, number, units) == [name |-> name, number |-> number, units |-> units]
NoArgs == Args("", 0, <<>>)

\* Faraday's constant unit.N_A * unit.e (kC/mol) and unit.R (J/mol/K), rounded
Faraday == 96
R_gas == 8

Formulas == {"Na+", "SO4-2", "Mg+2", "Na+-"}
ParamNames == {"diffusion_coefficient", "transport_number"}
Magnitudes == {1, 2}
UnitStrings == {<<"m**2/s">>}
Temperatures == {298, 310}
AmountUnits == {"mol", "mol/L", "mol/kg"}

----------------------------------------------------------------------------
(* External collaborators: formula parser, quantity converter, database *)

is_valid_formula(formula) == formula \in {"Na+", "SO4-2", "Mg+2"}

get_molecular_weight(formula) ==
    CASE formula = "Na+" -> 23
      [] formula = "SO4-2" -> 96
      [] formula = "Mg+2" -> 24
      [] OTHER -> 23

get_formal_charge(formula) ==
    CASE formula = "Na+" -> 1
      [] formula = "SO4-2" -> 0 - 2
      [] formula = "Mg+2" -> 2
      [] OTHER -> 0

\* temperature=None: no temperature given (a query at the default, or a
\* record without a temperature condition)
NoTemperature == 0

\* pm.Parameter(name, magnitude, units, temperature=...): a record valid at
\* the reference temperature given in kwargs
ParameterAt(name, magnitude, units, temperature) ==
    [name |-> name, magnitude |-> magnitude, units |-> units,
     temperature |-> temperature]

\* pm.Parameter(name, magnitude, units), no conditions in kwargs
Parameter(name, magnitude, units) ==
    ParameterAt(name, magnitude, units, NoTemperature)

\* the reference temperatures of records, and the temperatures of queries
Conditions == {NoTemperature, 298}
QueryTemperatures == {NoTemperature, 298, 310}

get_name_of(item) == item.name

\* Parameter.get_value(temperature, pressure, ionic_strength)
get_value(item, temperature, pressure, ionic_strength) ==
    Quantity(item.magnitude, item.units)

\* the records the database files hold, by formula
SourceData ==
    [f \in {"Na+", "SO4-2"} |->
        IF f = "Na+"
        THEN {Parameter("diffusion_coefficient", 1, <<"m**2/s">>)}
        ELSE {Parameter("transport_number", 1, <<"cm**2/s">>)}]

\* database.search_parameters(formula): the database after the call
search_parameters(d, formula) ==
    IF formula \in DOMAIN d THEN d
    ELSE IF formula \in DOMAIN SourceData
         THEN [f \in DOMAIN d \cup {formula} |->
                  IF f = formula THEN SourceData[formula] ELSE d[f]]
         ELSE d

\* unit(amount).to('moles', 'chem', mw=, volume=, solvent_mass=), in mol,
\* for an amount of substance, a molar concentration and a molality
ToMoles(amount, mw, volume, solvent_mass) ==
    CASE amount[2] = "mol" -> amount[1]
      [] amount[2] = "mol/L" -> amount[1] * volume
      [] amount[2] = "mol/kg" -> amount[1] * solvent_mass

Amounts == {<<m, u>> : m \in (0 - 1)..MaxMagnitude, u \in AmountUnits}
\* solution volumes (L) and solvent masses (kg)
Volumes == {1, 2}
SolventMasses == {3}

----------------------------------------------------------------------------
(* Solute *)

\* `chem.is_valid_formula` in the condition of __init__ is the function
\* object, not a call: its truth value
is_valid_formula_object == TRUE

NoObject == [formula |-> "", mw |-> 0, charge |-> 0, moles |-> 0, attrs |-> {}]

\* Solute.__init__
Construct(formula, amount, volume, solvent_mass) ==
    /\ obj = "none"
    /\ call' = Args(formula, 0, <<>>)
    /\ UNCHANGED <<nOps, delta, alpha_vars, adjust_vars>>
    /\ IF ~is_valid_formula_object
       THEN /\ errlog' = "invalid_formula"
            /\ obj' = "returned"
            /\ result' = Returned("Solute", None)
            /\ UNCHANGED <<db, self, searched, base, onlyMoles>>
       ELSE \/ \* the parser's functions accept the string
               /\ self' = [formula |-> formula,
                           mw |-> get_molecular_weight(formula),
                           charge |-> get_formal_charge(formula),
                           moles |-> ToMoles(amount, get_molecular_weight(formula),
                                             volume, solvent_mass),
                           attrs |-> {"formula", "mw", "charge", "moles",
                                      "parameters_TCPC"}]
               /\ db' = search_parameters(db, formula)
               /\ searched' = searched \cup {formula}
               /\ obj' = "returned"
               /\ result' = Returned("Solute", None)
               /\ base' = amount[1]
               /\ onlyMoles' = (amount[2] = "mol")
               /\ UNCHANGED errlog
            \/ \* get_molecular_weight raises on a string it cannot parse
               /\ ~is_valid_formula(formula)
               /\ self' = [NoObject EXCEPT !.formula = formula,
                                           !.attrs = {"formula"}]
               /\ obj' = "aborted"
               /\ result' = Raised("Solute", "FormulaParserError")
               /\ UNCHANGED <<db, searched, errlog, base, onlyMoles>>

\* the outcomes of Solute.get_parameter: the loop returns at the first
\* record it meets with the name, in the iteration order of a Python set
GetParameterOutcomes(d, s, parameter, temperature, pressure, ionic_strength) ==
    IF s.formula \in DOMAIN d
    THEN LET named == {item \in d[s.formula] : get_name_of(item) = parameter}
         IN  IF named = {}
             THEN {[value |-> None, log |-> "parameter_not_found"]}
             ELSE {[value |-> get_value(item, temperature, pressure,
                                        ionic_strength),
                    log |-> "none"] : item \in named}
    ELSE {[value |-> None, log |-> "no_species_entry"]}

\* Solute.get_parameter
get_parameter(parameter, temperature) ==
    /\ obj = "returned"
    /\ call' = Args(parameter, temperature, <<>>)
    /\ \E out \in GetParameterOutcomes(db, self, parameter, temperature,
                                       NoTemperature, NoTemperature) :
          /\ result' = Returned("get_parameter", out.value)
          /\ errlog' = IF out.log = "none" THEN errlog ELSE out.log
    /\ UNCHANGED <<db, self, obj, searched, nOps, base,
                   delta, onlyMoles, alpha_vars, adjust_vars>>

\* Solute.add_parameter
add_parameter(name, magnitude, units, temperature) ==
    /\ obj = "returned"
    /\ nOps < MaxOps
    /\ nOps' = nOps + 1
    /\ call' = Args(name, magnitude, units)
    /\ LET newparam == ParameterAt(name, magnitude, units, temperature)
       IN  IF self.formula \in DOMAIN db
           THEN /\ db' = [db EXCEPT ![self.formula] = @ \cup {newparam}]
                /\ result' = Returned("add_parameter", None)
           ELSE /\ db' = db
                /\ result' = Raised("add_parameter", "KeyError")
    /\ UNCHANGED <<self, obj, errlog, searched, base, delta,
                   onlyMoles, alpha_vars, adjust_vars>>

\* self.moles += quantity, with `=` in place of `+=`
AddedMolesAssigned(moles, quantity) == quantity

\* self.moles += quantity
AddedMoles(moles, quantity) == moles + quantity

\* Solute.add_moles
add_moles(amount, volume, solvent_mass) ==
    /\ obj = "returned"
    /\ nOps < MaxOps
    /\ nOps' = nOps + 1
    /\ call' = Args(amount[2], amount[1], <<>>)
    /\ self' = [self EXCEPT !.moles =
                    AddedMoles(@, ToMoles(amount, self.mw, volume, solvent_mass))]
    /\ delta' = delta + amount[1]
    /\ onlyMoles' = (onlyMoles /\ amount[2] = "mol")
    /\ result' = Returned("add_moles", None)
    /\ UNCHANGED <<db, obj, errlog, searched, base, alpha_vars, adjust_vars>>

\* Solute.set_moles
set_moles(amount, volume, solvent_mass) ==
    /\ obj = "returned"
    /\ nOps < MaxOps
    /\ nOps' = nOps + 1
    /\ call' = Args(amount[2], amount[1], <<>>)
    /\ self' = [self EXCEPT !.moles = ToMoles(amount, self.mw, volume,
                                              solvent_mass)]
    /\ base' = amount[1]
    /\ delta' = 0
    /\ onlyMoles' = (onlyMoles /\ amount[2] = "mol")
    /\ result' = Returned("set_moles", None)
    /\ UNCHANGED <<db, obj, errlog, searched, alpha_vars, adjust_vars>>

\* Solute.get_moles
get_moles ==
    /\ obj = "returned"
    /\ call' = NoArgs
    /\ result' = Returned("get_moles", Quantity(self.moles, <<"mol">>))
    /\ UNCHANGED <<db, self, obj, errlog, searched, nOps,
                   base, delta, onlyMoles, alpha_vars, adjust_vars>>

Abs(z) == IF z < 0 THEN 0 - z ELSE z

\* the Einstein relation of get_mobility
Mobility(charge, D, temperature) ==
    [tag |-> "Quantity",
     num |-> Faraday * Abs(charge) * D.num,
     den |-> R_gas * temperature * D.den,
     unit |-> D.unit \o <<"N_A*e/(R*K)">>]

\* the Nernst-Einstein relation of get_molar_conductivity
MolarConductivity(charge, D, temperature) ==
    [tag |-> "Quantity",
     num |-> D.num * Faraday * Faraday * charge * charge,
     den |-> R_gas * temperature * D.den,
     unit |-> <<"mS/cm/(mol/L)">>]

\* Solute.get_molar_conductivity
get_molar_conductivity(temperature) ==
    /\ obj = "returned"
    /\ call' = Args("", temperature, <<"K">>)
    /\ \E out \in GetParameterOutcomes(db, self, "diffusion_coefficient",
                                       NoTemperature, NoTemperature,
                                       NoTemperature) :
          /\ errlog' = IF out.log = "none" THEN errlog ELSE out.log
          /\ IF out.value = None
             THEN \* None * Quantity
                  result' = Raised("get_molar_conductivity", "TypeError")
             ELSE result' = Returned("get_molar_conductivity",
                               MolarConductivity(self.charge, out.value,
                                                 temperature))
    /\ UNCHANGED <<db, self, obj, searched, nOps, base,
                   delta, onlyMoles, alpha_vars, adjust_vars>>

\* the logger.info call of get_mobility: the format string has three
\* conversions and is applied to the one value `mobility`
MobilityLogRaises == TRUE

\* Solute.get_mobility
get_mobility(temperature) ==
    /\ obj = "returned"
    /\ call' = Args("", temperature, <<"K">>)
    /\ \E out \in GetParameterOutcomes(db, self, "diffusion_coefficient",
                                       NoTemperature, NoTemperature,
                                       NoTemperature) :
          /\ errlog' = IF out.log = "none" THEN errlog ELSE out.log
          /\ IF out.value = None
             THEN \* Quantity * None
                  result' = Raised("get_mobility", "TypeError")
             ELSE IF MobilityLogRaises
                  THEN result' = Raised("get_mobility", "TypeError")
                  ELSE result' = Returned("get_mobility",
                                    Mobility(self.charge, out.value,
                                             temperature))
    /\ UNCHANGED <<db, self, obj, searched, nOps, base,
                   delta, onlyMoles, alpha_vars, adjust_vars>>

SoluteInit ==
    /\ db = <<>>
    /\ self = NoObject
    /\ obj = "none"
    /\ call = NoArgs
    /\ result = NoResult
    /\ errlog = "none"
    /\ searched = {}
    /\ nOps = 0
    /\ base = 0
    /\ delta = 0
    /\ onlyMoles = TRUE

----------------------------------------------------------------------------
(* alpha *)

\* pH and pKa values are integers here, so every factor of the computation
\* is a power of ten.  The number 10 ** -x is written as its exponent x:
\* a product adds exponents and a power multiplies the exponent.  A sum of
\* at most nine such numbers is a decimal numeral, written as the bag of
\* its exponents (digit CopiesIn(e, b) at position e); two sums are equal
\* exactly when the bags are.  Floating-point rounding is not modelled.
Pow10Neg(x) == x
One == 0
Times(a, b) == a + b
Power(a, k) == a * k
Zero == EmptyBag
Plus(sum, a) == sum (+) SetToBag({a})

pHValues == {2, 3, 5, 7}
pKaValues == {2, 3, 5}
RECURSIVE SeqsUpTo(_)
SeqsUpTo(k) ==
    IF k = 0 THEN {<<>>}
    ELSE SeqsUpTo(k - 1) \cup
         {Append(q, v) : q \in {r \in SeqsUpTo(k - 1) : Len(r) = k - 1},
                         v \in pKaValues}
pKaLists == SeqsUpTo(MaxLen)
\* the values of n: Python indexes a list from the end with a negative n
Ns == (0 - 1)..(MaxLen + 1)

AlphaNone(msg) ==
    [kind |-> "return", err |-> "none", isNone |-> TRUE, num |-> 0,
     den |-> Zero, log |-> msg]
AlphaValue(numerator, denominator) ==
    [kind |-> "return", err |-> "none", isNone |-> FALSE, num |-> numerator,
     den |-> denominator, log |-> "info"]

\* for i in range(len(pKa_list[:item])): k_term *= 10 ** -pKa_list[i]
RECURSIVE MultiplyPreceding(_, _, _, _)
MultiplyPreceding(k_term, list, item, i) ==
    IF i >= Len(SubSeq(list, 1, item)) THEN k_term
    ELSE MultiplyPreceding(Times(k_term, Pow10Neg(list[i + 1])), list, item,
                           i + 1)

\* for item in range(0, num_protons + 1): the loop that builds terms_list;
\* k_term is set to 1 once, before the loop
RECURSIVE BuildTerms(_, _, _, _, _)
BuildTerms(item, k_term, terms, Hplus, list) ==
    IF item > Len(list) THEN terms
    ELSE LET k == MultiplyPreceding(k_term, list, item, 0)
         IN  BuildTerms(item + 1, k,
                        Append(terms, Times(k, Power(Hplus, Len(list) - item))),
                        Hplus, list)

TermsList(ph, list) == BuildTerms(0, One, <<>>, Pow10Neg(ph), list)

\* the denominator loop with `denominator = item` in place of `+=`
RECURSIVE DenominatorAssigned(_, _)
DenominatorAssigned(terms, acc) ==
    IF terms = <<>> THEN acc
    ELSE DenominatorAssigned(Tail(terms), Plus(Zero, Head(terms)))

\* denominator = 0; for item in terms_list: denominator += item
RECURSIVE Denominator(_, _)
Denominator(terms, acc) ==
    IF terms = <<>> THEN acc
    ELSE Denominator(Tail(terms), Plus(acc, Head(terms)))

\* terms_list[n], a Python list index
Index(terms, n) ==
    IF n >= 0 THEN terms[n + 1] ELSE terms[Len(terms) + n + 1]

\* alpha(n, pH, pKa_list): what it returns
Alpha(n, ph, list) ==
    IF Len(list) = 0 THEN AlphaNone("no_pKa_values")
    ELSE IF Len(list) < n THEN AlphaNone("insufficient_pKa_values")
    ELSE LET terms == TermsList(ph, list)
         IN  AlphaValue(Index(terms, n), Denominator(terms, Zero))

\* one call alpha(n, pH, pKa_list)
alpha(n) ==
    /\ alphaOut' = [k \in DOMAIN alphaOut \cup {n} |->
                       IF k = n THEN Alpha(n, pH, pKa_list) ELSE alphaOut[k]]
    /\ terms_list' = IF Len(pKa_list) = 0 \/ Len(pKa_list) < n
                     THEN <<>> ELSE TermsList(pH, pKa_list)
    /\ UNCHANGED <<pH, pKa_list, solute_vars, adjust_vars>>

----------------------------------------------------------------------------
(* Temperature adjustment *)

\* A temperature is a pint Quantity <<magnitude, unit>>, the magnitude in
\* hundredths of a degree: <<2500, "degC">> is 25 degC, <<29815, "K">> is
\* 298.15 K.
AdjustTemperatures ==
    {<<2500, "degC">>, <<29815, "K">>, <<4200, "degC">>, <<31515, "K">>}
\* equilibrium or rate constants, energies (kJ/mol), Pitzer coefficients
AdjustConstants == {7, 15}
AdjustEnergies == {900}
PitzerCoefficients == {<<1, 2, 3, 4, 5>>}

\* the default of temp_ref in adjust_temp_pitzer
PitzerDefaultRef == <<29815, "K">>
\* the default of reference_temperature in adjust_temp_vanthoff and
\* adjust_temp_arrhenius
DefaultRef == <<2500, "degC">>

\* Quantity.to("K")
ToKelvin(q) == IF q[2] = "degC" THEN <<q[1] + 27315, "K">> ELSE q

\* constant * math.exp(energy / ureg.R * (1 / Tref - 1 / T)), as the
\* expression in the two temperatures that enter it
ExpAdjusted(constant, energy, Tref, T) ==
    [form |-> "constant*exp(energy/R*(1/Tref-1/T))",
     constant |-> <<constant>>, energy |-> energy, Tref |-> Tref, T |-> T]

\* c1 + c2*(1/T + 1/Tref) + c2*log(T/Tref) + c3*(T - Tref)
\* + c4*(T**2 - Tref**2) + c5*(T**-2 - Tref**-2), as the expression in the
\* two temperatures that enter it
PitzerAdjusted(c, Tref, T) ==
    [form |-> "c1+c2*(1/T+1/Tref)+c2*log(T/Tref)+c3*(T-Tref)+c4*(T**2-Tref**2)+c5*(T**-2-Tref**-2)",
     constant |-> c, energy |-> 0, Tref |-> Tref, T |-> T]

AdjustCall(fn, temperature, reference, out) ==
    [fn |-> fn, temperature |-> temperature, reference |-> reference,
     out |-> out]

\* adjust_temp_pitzer(c1, c2, c3, c4, c5, temp, temp_ref)
adjust_temp_pitzer(c, temp, temp_ref) ==
    /\ Cardinality(adjCalls) < MaxCalls
    /\ adjCalls' = adjCalls \cup
          {AdjustCall("adjust_temp_pitzer", temp, temp_ref,
                      PitzerAdjusted(c, temp_ref, temp))}
    /\ UNCHANGED <<solute_vars, alpha_vars>>

\* adjust_temp_vanthoff(equilibrium_constant, enthalpy, temperature,
\* reference_temperature)
adjust_temp_vanthoff(equilibrium_constant, enthalpy, temperature, reference_temperature) ==
    /\ Cardinality(adjCalls) < MaxCalls
    /\ adjCalls' = adjCalls \cup
          {AdjustCall("adjust_temp_vanthoff", temperature,
                      reference_temperature,
                      ExpAdjusted(equilibrium_constant, enthalpy,
                                  ToKelvin(reference_temperature),
                                  ToKelvin(temperature)))}
    /\ UNCHANGED <<solute_vars, alpha_vars>>

\* adjust_temp_arrhenius(rate_constant, activation_energy, temperature,
\* reference_temperature)
adjust_temp_arrhenius(rate_constant, activation_energy, temperature, reference_temperature) ==
    /\ Cardinality(adjCalls) < MaxCalls
    /\ adjCalls' = adjCalls \cup
          {AdjustCall("adjust_temp_arrhenius", temperature,
                      reference_temperature,
                      ExpAdjusted(rate_constant, activation_energy,
                                  ToKelvin(reference_temperature),
                                  ToKelvin(temperature)))}
    /\ UNCHANGED <<solute_vars, alpha_vars>>

----------------------------------------------------------------------------
(* Specifications *)

AdjustIdle == adjCalls = {}

NoCalls == [k \in {} |-> AlphaNone("")]

AlphaIdle ==
    /\ pH = 0
    /\ pKa_list = <<>>
    /\ alphaOut = NoCalls
    /\ terms_list = <<>>

AlphaInit ==
    /\ pH \in pHValues
    /\ pKa_list \in pKaLists
    /\ alphaOut = NoCalls
    /\ terms_list = <<>>

Init == SoluteInit /\ AlphaIdle /\ AdjustIdle

Next ==
    \/ \E f \in Formulas, a \in Amounts, v \in Volumes, m \in SolventMasses :
          Construct(f, a, v, m)
    \/ \E p \in ParamNames, t \in QueryTemperatures : get_parameter(p, t)
    \/ \E p \in ParamNames, m \in Magnitudes, u \in UnitStrings,
          t \in Conditions : add_parameter(p, m, u, t)
    \/ \E a \in Amounts, v \in Volumes, m \in SolventMasses : add_moles(a, v, m)
    \/ \E a \in Amounts, v \in Volumes, m \in SolventMasses : set_moles(a, v, m)
    \/ get_moles
    \/ \E t \in Temperatures : get_molar_conductivity(t)
    \/ \E t \in Temperatures : get_mobility(t)

Spec == Init /\ [][Next]_vars

InitAlpha == SoluteInit /\ AlphaInit /\ AdjustIdle

NextAlpha == \E n \in Ns : alpha(n)

SpecAlpha == InitAlpha /\ [][NextAlpha]_vars

NextAdjust ==
    \/ \E c \in PitzerCoefficients, t \in AdjustTemperatures,
          r \in AdjustTemperatures \cup {PitzerDefaultRef} :
          adjust_temp_pitzer(c, t, r)
    \/ \E k \in AdjustConstants, h \in AdjustEnergies,
          t \in AdjustTemperatures, r \in AdjustTemperatures \cup {DefaultRef} :
          adjust_temp_vanthoff(k, h, t, r)
    \/ \E k \in AdjustConstants, h \in AdjustEnergies,
          t \in AdjustTemperatures, r \in AdjustTemperatures \cup {DefaultRef} :
          adjust_temp_arrhenius(k, h, t, r)

SpecAdjust == Init /\ [][NextAdjust]_vars

----------------------------------------------------------------------------
(* Claims about Solute (checked under Spec) *)

HasEntry == self.formula \in DOMAIN db
RecordsNamed(name) ==
    IF HasEntry THEN {item \in db[self.formula] : item.name = name} ELSE {}

\* C1: constructing a Solute with a formula that is_valid_formula rejects
\* fails with InvalidFormulaError and yields no object: no attribute is
\* set and search_parameters is not called for that formula.
C1_InvalidFormulaRejected ==
    (result.op = "Solute" /\ ~is_valid_formula(call.name)) =>
        /\ result = Raised("Solute", "InvalidFormulaError")
        /\ obj = "aborted"
        /\ self.attrs = {}
        /\ call.name \notin searched

\* C2: get_parameter(name) fails with ParameterNotFoundError when the
\* formula has an entry in the store but no record of that name, and with
\* the distinct SpeciesNotFoundError when the formula has no entry.
C2_LookupMissErrors ==
    (result.op = "get_parameter" /\ RecordsNamed(call.name) = {}) =>
        /\ result.kind = "raise"
        /\ HasEntry => result.err = "ParameterNotFoundError"
        /\ ~HasEntry => result.err = "SpeciesNotFoundError"

\* C3: with no 'diffusion_coefficient' record for the species, get_mobility
\* and get_molar_conductivity fail with the lookup's error (the
\* ParameterNotFoundError of get_parameter), not with another kind of error
\* and not with a value.
C3_MissPropagated ==
    (/\ result.op \in {"get_mobility", "get_molar_conductivity"}
     /\ RecordsNamed("diffusion_coefficient") = {}) =>
        /\ result.kind = "raise"
        /\ HasEntry => result.err = "ParameterNotFoundError"
        /\ ~HasEntry => result.err \in {"ParameterNotFoundError",
                                        "SpeciesNotFoundError"}

\* C4: for any constructed Solute, populated or not, get_parameter(name)
\* right after add_parameter(name, m, u), with no other record of that name
\* present, returns m in unit u.
C4_AddThenGet ==
    [][(/\ result.op = "add_parameter"
        /\ RecordsNamed(call.name) \subseteq
              {ParameterAt(call.name, call.number, call.units, t) :
                  t \in Conditions}
        /\ result'.op = "get_parameter"
        /\ call'.name = call.name) =>
            result' = Returned("get_parameter",
                               Quantity(call.number, call.units))]_vars

\* C5: with every amount given in moles, the stored amount is the value of
\* the latest set_moles (or of construction) plus the deltas of the
\* add_moles calls since, and get_moles returns it.
C5_AmountComposes ==
    (obj = "returned" /\ onlyMoles) =>
        /\ self.moles = base + delta
        /\ result.op = "get_moles" =>
              result = Returned("get_moles", Quantity(base + delta, <<"mol">>))

\* a set_moles and a later non-zero add_moles, all in moles, then get_moles
C5_Witness ==
    /\ obj = "returned" /\ onlyMoles
    /\ nOps = 2 /\ delta # 0 /\ base # 0
    /\ result.op = "get_moles"

\* C9: with a 'diffusion_coefficient' record of value D, get_mobility(T)
\* completes and returns N_A * e * |z| * D / (R * T).
C9_MobilityValue ==
    (result.op = "get_mobility" /\ RecordsNamed("diffusion_coefficient") # {}) =>
        /\ result.kind = "return"
        /\ \E item \in RecordsNamed("diffusion_coefficient") :
              result.value = Mobility(self.charge,
                                      get_value(item, NoTemperature, NoTemperature,
                                                NoTemperature),
                                      call.number)

\* the validity condition of a record holds in the environment of a query
Satisfied(item, temperature) ==
    \/ item.temperature = NoTemperature
    \/ temperature = NoTemperature
    \/ item.temperature = temperature

\* C11: when several records of the queried name exist, get_parameter
\* returns the value of one whose validity conditions the supplied
\* temperature satisfies; when no record of that name is satisfied it fails
\* with ParameterNotFoundError and returns no record's value.
C11_ConditionsSelected ==
    (result.op = "get_parameter" /\ RecordsNamed(call.name) # {}) =>
        LET matching == {item \in RecordsNamed(call.name) :
                            Satisfied(item, call.number)}
        IN  IF matching = {}
            THEN /\ result.kind = "raise"
                 /\ result.err = "ParameterNotFoundError"
            ELSE Cardinality(RecordsNamed(call.name)) >= 2 =>
                    /\ result.kind = "return"
                    /\ \E item \in matching :
                          result.value = get_value(item, call.number,
                                                   NoTemperature, NoTemperature)

----------------------------------------------------------------------------
(* Claims about alpha (checked under SpecAlpha) *)

num_protons == Len(pKa_list)
Called(n) == n \in DOMAIN alphaOut

RECURSIVE SumOfNumerators(_)
SumOfNumerators(n) ==
    IF n < 0 THEN Zero ELSE Plus(SumOfNumerators(n - 1), alphaOut[n].num)

\* C6: for a non-empty pKa_list of length p, the values alpha(n, pH,
\* pKa_list) for n = 0..p sum to 1: they have one denominator and their
\* numerators sum to it.
C6_AlphasSumToOne ==
    (num_protons > 0 /\ \A n \in 0..num_protons : Called(n)) =>
        /\ \A n \in 0..num_protons :
              /\ ~alphaOut[n].isNone
              /\ alphaOut[n].den = alphaOut[0].den
        /\ SumOfNumerators(num_protons) = alphaOut[0].den

\* alpha was called for every n of a diprotic acid
C6_Witness ==
    /\ num_protons = 2
    /\ \A n \in 0..2 : Called(n)

\* C7: alpha fails with InvalidArgumentError when pKa_list is empty or
\* shorter than n, and does not fail for 0 <= n <= len(pKa_list) with a
\* non-empty list.
C7_InvalidArgument ==
    \A n \in DOMAIN alphaOut :
        /\ (num_protons = 0 \/ num_protons < n) =>
              /\ alphaOut[n].kind = "raise"
              /\ alphaOut[n].err = "InvalidArgumentError"
        /\ (num_protons > 0 /\ 0 <= n /\ n <= num_protons) =>
              /\ alphaOut[n].kind = "return"
              /\ ~alphaOut[n].isNone

\* C8: when pH = pKa_list[k], terms k and k+1 are equal and
\* alpha(k) = alpha(k+1).
C8_EqualAtpKa ==
    \A k \in 0..(num_protons - 1) :
        (pH = pKa_list[k + 1] /\ Called(k) /\ Called(k + 1)) =>
            /\ alphaOut[k] = alphaOut[k + 1]
            /\ terms_list # <<>> => terms_list[k + 1] = terms_list[k + 2]

\* the product of the first i dissociation constants, each once
RECURSIVE ProductOfKs(_)
ProductOfKs(i) ==
    IF i = 0 THEN One ELSE Times(ProductOfKs(i - 1), Pow10Neg(pKa_list[i]))

RECURSIVE SumOfTerms(_)
SumOfTerms(i) ==
    IF i = 0 THEN Zero ELSE Plus(SumOfTerms(i - 1), terms_list[i])

\* C10: term[i] = (product of 10^(-pKa_list[j]) for j = 0..i-1) *
\* (H+)^(p-i) for every i in 0..p, and alpha(n) = term[n] / sum of terms.
C10_Terms ==
    terms_list # <<>> =>
        /\ Len(terms_list) = num_protons + 1
        /\ \A i \in 0..num_protons :
              terms_list[i + 1] =
                 Times(ProductOfKs(i), Power(Pow10Neg(pH), num_protons - i))
        /\ \A n \in 0..num_protons :
              Called(n) => /\ alphaOut[n].num = terms_list[n + 1]
                           /\ alphaOut[n].den = SumOfTerms(num_protons + 1)

----------------------------------------------------------------------------
(* Claims about the temperature adjustments (checked under SpecAdjust) *)

\* C12: each of adjust_temp_vanthoff, adjust_temp_arrhenius and
\* adjust_temp_pitzer converts its temperature and its reference temperature
\* to Kelvin before they enter the formula, so the same physical
\* temperature given in degC or in K gives the same result.
C12_AbsoluteTemperatures ==
    /\ \A c \in adjCalls :
          /\ c.out.T = ToKelvin(c.temperature)
          /\ c.out.Tref = ToKelvin(c.reference)
    /\ \A c, d \in adjCalls :
          (/\ c.fn = d.fn
           /\ c.out.constant = d.out.constant
           /\ c.out.energy = d.out.energy
           /\ ToKelvin(c.temperature) = ToKelvin(d.temperature)
           /\ ToKelvin(c.reference) = ToKelvin(d.reference)) =>
              c.out = d.out

====
